---- MODULE Spec2Model ----
(***************************************************************************)
(* C172M takeoff performance engine (src/src/lib/perf.ts).                  *)
(*                                                                         *)
(* JavaScript numbers are modelled as exact rationals <<n, d>> (d > 0,      *)
(* lowest terms); null is the empty tuple, undefined (an out-of-bounds      *)
(* array read) and a thrown TypeError are tagged tuples.  Arrays are        *)
(* sequences read through At with the source's 0-based indices.            *)
(***************************************************************************)
EXTENDS Integers, Sequences, FiniteSets, TLC

VARIABLES data, input, out, status, locals, memo, proxy, ui

vars == <<data, input, out, status, locals, memo, proxy, ui>>

-----------------------------------------------------------------------------
(* Numbers *)

Null == <<>>

Undefined == <<"undefined">>

TypeError == <<"TypeError">>

SL == <<"SL">>

Abs(n) == IF n < 0 THEN -n ELSE n

RECURSIVE GCD(_, _)
GCD(a, b) == IF b = 0 THEN a ELSE GCD(b, a % b)

Rat(n, d) ==
  IF d = 1 THEN <<n, 1>>
  ELSE LET g == GCD(Abs(n), Abs(d))
           s == IF d < 0 THEN -1 ELSE 1
       IN  <<(s * n) \div g, (s * d) \div g>>

Num(n) == <<n, 1>>

RAdd(a, b) ==
  IF a[2] = b[2] THEN Rat(a[1] + b[1], a[2])
  ELSE LET g == GCD(a[2], b[2])
       IN  Rat(a[1] * (b[2] \div g) + b[1] * (a[2] \div g), (a[2] \div g) * b[2])

RNeg(a) == <<-a[1], a[2]>>

RSub(a, b) == RAdd(a, RNeg(b))

RMul(a, b) ==
  IF a[2] = 1 /\ b[2] = 1 THEN <<a[1] * b[1], 1>>
  ELSE LET g1 == GCD(Abs(a[1]), b[2])
           g2 == GCD(Abs(b[1]), a[2])
       IN  Rat((a[1] \div g1) * (b[1] \div g2), (a[2] \div g2) * (b[2] \div g1))

RDiv(a, b) == RMul(a, Rat(b[2], b[1]))

RLt(a, b) ==
  IF a[2] = b[2] THEN a[1] < b[1]
  ELSE LET g == GCD(a[2], b[2])
       IN  a[1] * (b[2] \div g) < b[1] * (a[2] \div g)

RLe(a, b) == ~RLt(b, a)

RMax(a, b) == IF RLt(a, b) THEN b ELSE a

RMin(a, b) == IF RLt(b, a) THEN b ELSE a

RAbs(a) == <<Abs(a[1]), a[2]>>

\* Math.round: the nearest integer, ties towards +infinity.
MathRound(a) == Num((2 * a[1] + a[2]) \div (2 * a[2]))

\* Number.prototype.toFixed(0): the nearest integer, ties away from zero.
ToFixed0(a) ==
  IF a[1] < 0 THEN RNeg(MathRound(RAbs(a))) ELSE MathRound(a)

\* arr[k] with a 0-based k; reading past the end yields undefined.
At(arr, k) == IF k >= 0 /\ k < Len(arr) THEN arr[k + 1] ELSE Undefined

IsNullish(q) == q = Null \/ q = Undefined

-----------------------------------------------------------------------------
(* perf.ts *)

normalizePA(pa) == IF pa = SL THEN Num(0) ELSE pa

NoIndex == -1

\* A scan that also steps past an axis value equal to x.
RECURSIVE clampScanInclusive(_, _, _)
clampScanInclusive(x, axis, i) ==
  IF i + 1 < Len(axis) /\ RLe(At(axis, i + 1), x)
  THEN clampScanInclusive(x, axis, i + 1)
  ELSE i

RECURSIVE clampScan(_, _, _)
clampScan(x, axis, i) ==
  IF i + 1 < Len(axis) /\ RLt(At(axis, i + 1), x)
  THEN clampScan(x, axis, i + 1)
  ELSE i

clampIndexHigh(x, axis) ==
  IF RLt(x, At(axis, 0)) THEN NoIndex
  ELSE IF RLt(At(axis, Len(axis) - 1), x) THEN Len(axis) - 2
  ELSE clampScan(x, axis, 0)

clampIndex(x, axis) ==
  IF RLt(x, At(axis, 0)) \/ RLt(At(axis, Len(axis) - 1), x)
  THEN NoIndex
  ELSE clampScan(x, axis, 0)

\* The fraction measured from the wrong end.
lerpBackward(a, b, t) == RAdd(b, RMul(RSub(a, b), t))

lerp(a, b, t) == RAdd(a, RMul(RSub(b, a), t))

\* A lookup that skips the null check of corners carrying zero weight.
bilinearPartial(x, y, xs, ys, grid) ==
  LET i == clampIndex(x, xs)
      j == clampIndex(y, ys)
  IN  IF i = NoIndex \/ j = NoIndex THEN Null
      ELSE IF At(grid, i + 1) = Undefined THEN TypeError
      ELSE IF At(ys, j + 1) = Undefined THEN Null
      ELSE
        LET tx == RDiv(RSub(x, At(xs, i)), RSub(At(xs, i + 1), At(xs, i)))
            ty == RDiv(RSub(y, At(ys, j)), RSub(At(ys, j + 1), At(ys, j)))
            wx(di) == IF di = 0 THEN RSub(Num(1), tx) ELSE tx
            wy(dj) == IF dj = 0 THEN RSub(Num(1), ty) ELSE ty
            q(di, dj) == At(At(grid, i + di), j + dj)
            used(di, dj) == RMul(wx(di), wy(dj)) # Num(0)
            term(di, dj) == IF used(di, dj) THEN RMul(q(di, dj), RMul(wx(di), wy(dj)))
                            ELSE Num(0)
        IN  IF \E di \in {0, 1} : \E dj \in {0, 1} : used(di, dj) /\ IsNullish(q(di, dj))
            THEN Null
            ELSE RAdd(RAdd(term(0, 0), term(0, 1)), RAdd(term(1, 0), term(1, 1)))

\* A lookup with the two fractions exchanged: the altitude fraction applied
\* along the temperature axis and the temperature fraction along the altitude.
bilinearSwapped(x, y, xs, ys, grid) ==
  LET i == clampIndex(x, xs)
      j == clampIndex(y, ys)
  IN  IF i = NoIndex \/ j = NoIndex THEN Null
      ELSE IF At(grid, i + 1) = Undefined THEN TypeError
      ELSE
        LET q11 == At(At(grid, i), j)
            q12 == At(At(grid, i), j + 1)
            q21 == At(At(grid, i + 1), j)
            q22 == At(At(grid, i + 1), j + 1)
        IN  IF IsNullish(q11) \/ IsNullish(q12) \/ IsNullish(q21) \/ IsNullish(q22)
            THEN Null
            ELSE
              LET tx == RDiv(RSub(x, At(xs, i)), RSub(At(xs, i + 1), At(xs, i)))
                  ty == RDiv(RSub(y, At(ys, j)), RSub(At(ys, j + 1), At(ys, j)))
              IN  lerp(lerp(q11, q12, tx), lerp(q21, q22, tx), ty)

\* The result is a number, Null, or TypeError when grid[i + 1] is undefined.
bilinear(x, y, xs, ys, grid) ==
  LET i == clampIndex(x, xs)
      j == clampIndex(y, ys)
  IN  IF i = NoIndex \/ j = NoIndex THEN Null
      ELSE
        LET x0 == At(xs, i)
            x1 == At(xs, i + 1)
            y0 == At(ys, j)
            y1 == At(ys, j + 1)
            q11 == At(At(grid, i), j)
            q12 == At(At(grid, i), j + 1)
        IN  IF At(grid, i + 1) = Undefined THEN TypeError
            ELSE
              LET q21 == At(At(grid, i + 1), j)
                  q22 == At(At(grid, i + 1), j + 1)
              IN  IF IsNullish(q11) \/ IsNullish(q12) \/ IsNullish(q21) \/ IsNullish(q22)
                  THEN Null
                  ELSE
                    LET tx == RDiv(RSub(x, x0), RSub(x1, x0))
                        ty == RDiv(RSub(y, y0), RSub(y1, y0))
                        r1 == lerp(q11, q12, ty)
                        r2 == lerp(q21, q22, ty)
                    IN  lerp(r1, r2, tx)

\* (a || 1) on numbers: 0 is falsy.
OrOne(a) == IF a[1] = 0 THEN Num(1) ELSE a

\* A blend that takes a row's cell as it is when the other row has no weight.
weightInterpPartial(w, lower, upper) ==
  LET rows == Len(lower.grid)
      cols == Len(At(lower.grid, 0))
      t == RDiv(RSub(w, lower.w), OrOne(RSub(upper.w, lower.w)))
  IN  [i \in 1..rows |->
        [j \in 1..cols |->
          LET a == At(At(lower.grid, i - 1), j - 1)
              b == At(At(upper.grid, i - 1), j - 1)
          IN  IF t = Num(0) THEN a
              ELSE IF t = Num(1) THEN b
              ELSE IF IsNullish(a) \/ IsNullish(b) THEN Null ELSE lerp(a, b, t)]]

weightInterp(w, lower, upper) ==
  LET rows == Len(lower.grid)
      cols == Len(At(lower.grid, 0))
      t == RDiv(RSub(w, lower.w), OrOne(RSub(upper.w, lower.w)))
  IN  [i \in 1..rows |->
        [j \in 1..cols |->
          LET a == At(At(lower.grid, i - 1), j - 1)
              b == At(At(upper.grid, i - 1), j - 1)
          IN  IF IsNullish(a) \/ IsNullish(b) THEN Null ELSE lerp(a, b, t)]]

RECURSIVE insertByWeight(_, _)
insertByWeight(sorted, row) ==
  IF sorted = <<>> THEN <<row>>
  ELSE IF RLt(row.weight_lb, sorted[Len(sorted)].weight_lb)
       THEN Append(insertByWeight(SubSeq(sorted, 1, Len(sorted) - 1), row),
                   sorted[Len(sorted)])
       ELSE Append(sorted, row)

\* Array.prototype.sort with (a, b) => a.weight_lb - b.weight_lb (stable).
RECURSIVE sortByWeight(_)
sortByWeight(ws) ==
  IF ws = <<>> THEN <<>>
  ELSE insertByWeight(sortByWeight(SubSeq(ws, 1, Len(ws) - 1)), ws[Len(ws)])

sortInPlace(ws) == [sorted |-> sortByWeight(ws), source |-> sortByWeight(ws)]

\* [...data.grid.weights].sort(...): the sorted array and what the call
\* leaves in data.grid.weights.
sortedCopy(ws) == [sorted |-> sortByWeight(ws), source |-> ws]

keptNotes(previous) == previous

freshNotes(previous) == <<>>

WeightNote(w, wMin, wMax) == <<"weight", ToFixed0(w), wMin, wMax>>

ClampNote(paRaw) == <<"clamp", paRaw>>

ExtrapolationNote == <<"extrapolation">>

weightBelowOnly(w, wMin, wMax) == RLt(w, wMin)

weightOutOfRange(w, wMin, wMax) == RLt(w, wMin) \/ RLt(wMax, w)

CalcOutput(roll, over50, liftoff, at50, notes) ==
  [groundRollFt |-> roll, toClear50Ft |-> over50,
   liftoffKIAS |-> liftoff, at50ftKIAS |-> at50, notes |-> notes]

weightRangeResult(w, wMin, wMax) ==
  CalcOutput(Null, Null, Null, Null, <<WeightNote(w, wMin, wMax)>>)

RECURSIVE bracketScan(_, _, _)
bracketScan(weightsSorted, w, i) ==
  IF i >= Len(weightsSorted) - 1
  THEN [lower |-> At(weightsSorted, 0),
        upper |-> At(weightsSorted, Len(weightsSorted) - 1)]
  ELSE
    LET a == At(weightsSorted, i)
        b == At(weightsSorted, i + 1)
    IN  IF RLe(a.weight_lb, w) /\ RLe(w, b.weight_lb)
        THEN [lower |-> a, upper |-> b]
        ELSE bracketScan(weightsSorted, w, i + 1)

\* The initial pair (lightest, heaviest) kept, without the scan.
bracketWhole(weightsSorted, w) ==
  [lower |-> At(weightsSorted, 0),
   upper |-> At(weightsSorted, Len(weightsSorted) - 1)]

bracketWeights(weightsSorted, w) == bracketScan(weightsSorted, w, 0)

\* A guard that takes the upper row when the two weights are equal.
weightFractionUpper(w, lower, upper) ==
  IF upper.weight_lb = lower.weight_lb THEN Num(1)
  ELSE RDiv(RSub(w, lower.weight_lb), RSub(upper.weight_lb, lower.weight_lb))

weightFraction(w, lower, upper) ==
  RDiv(RSub(w, lower.weight_lb), OrOne(RSub(upper.weight_lb, lower.weight_lb)))

blendSpeedFloor(lo, up, tw) ==
  LET v == lerp(lo, up, tw) IN Num(v[1] \div v[2])

blendSpeed(lo, up, tw) == MathRound(lerp(lo, up, tw))

workingPASeaLevel(paRaw, paMin) == IF RLt(paRaw, paMin) THEN Num(0) ELSE paRaw

workingPA(paRaw, paMin) == IF RLt(paRaw, paMin) THEN paMin ELSE paRaw

clampNotes(notes, paRaw, paMin) ==
  IF RLt(paRaw, paMin) THEN Append(notes, ClampNote(paRaw)) ELSE notes

\* A failed lookup that returns its own note alone.
extrapolationNotesOnly(notes) == <<ExtrapolationNote>>

extrapolationNotes(notes) == <<ExtrapolationNote>> \o notes

headwindFactorAdded(wind) ==
  RMin(RAdd(Num(1), RMul(RDiv(wind, Num(9)), Rat(1, 10))), Rat(3, 2))

headwindFactorNoFloor(wind) ==
  RSub(Num(1), RMul(RDiv(wind, Num(9)), Rat(1, 10)))

headwindFactor(wind) ==
  RMax(RSub(Num(1), RMul(RDiv(wind, Num(9)), Rat(1, 10))), Rat(1, 2))

tailwindFactorNoCap(wind) ==
  RAdd(Num(1), RMul(RDiv(RAbs(wind), Num(10)), Rat(1, 10)))

tailwindFactor(wind) ==
  LET twkt == RMin(RAbs(wind), Num(10))
  IN  RAdd(Num(1), RMul(RDiv(twkt, Num(10)), Rat(1, 10)))

windFactor(wind) ==
  IF wind[1] > 0 THEN headwindFactor(wind)
  ELSE IF wind[1] < 0 THEN tailwindFactor(wind)
  ELSE Num(1)

\* An increment rounded to whole feet before it is added.
grassIncRounded(roll, dryGrass) ==
  IF dryGrass THEN MathRound(RMul(roll, Rat(15, 100))) ELSE Num(0)

grassInc(roll, dryGrass) == IF dryGrass THEN RMul(roll, Rat(15, 100)) ELSE Num(0)

\* An increment of 15% of each distance's own value.
surfaceOver50Own(over50, roll, dryGrass) == RAdd(over50, grassInc(over50, dryGrass))

\* Line 179: the ground roll's increment added to the distance over the obstacle.
surfaceOver50(over50, roll, dryGrass) == RAdd(over50, grassInc(roll, dryGrass))

NoOutput == CalcOutput(Null, Null, Null, Null, <<>>)

\* The intermediate values of a call that got past the weight check.
NoLocals ==
  [reached |-> FALSE, lower |-> Null, upper |-> Null, tw |-> Null,
   rollGrid |-> <<>>, over50Grid |-> <<>>, pa |-> Null, roll |-> Null, over50 |-> Null,
   factor |-> Null, rollWind |-> Null, over50Wind |-> Null]

Locals(lower, upper, tw, rollGrid, over50Grid, pa, roll, over50) ==
  [reached |-> TRUE, lower |-> lower.weight_lb, upper |-> upper.weight_lb, tw |-> tw,
   rollGrid |-> rollGrid, over50Grid |-> over50Grid, pa |-> pa,
   roll |-> roll, over50 |-> over50,
   factor |-> Null, rollWind |-> Null, over50Wind |-> Null]

\* The locals after the wind adjustment of lines 160-173.
WindLocals(l, factor, rollW, over50W) ==
  [l EXCEPT !.factor = factor, !.rollWind = rollW, !.over50Wind = over50W]

Returned(value, weights, l) ==
  [threw |-> FALSE, value |-> value, weights |-> weights, locals |-> l]

Thrown(weights, l) ==
  [threw |-> TRUE, value |-> NoOutput, weights |-> weights, locals |-> l]

\* Lines 150-188: the failed lookup, or wind, surface and rounding.
finish(in, weights, liftoffKIAS, at50ftKIAS, notes, roll, over50, l) ==
  IF roll = TypeError \/ over50 = TypeError THEN Thrown(weights, l)
  ELSE IF roll = Null \/ over50 = Null
  THEN Returned(CalcOutput(Null, Null, liftoffKIAS, at50ftKIAS,
                           extrapolationNotes(notes)), weights, l)
  ELSE
    LET factor == windFactor(in.windKtSigned)
        rollW == RMul(roll, factor)
        over50W == RMul(over50, factor)
        inc == grassInc(rollW, in.dryGrass)
    IN  Returned(CalcOutput(MathRound(RAdd(rollW, inc)),
                            MathRound(surfaceOver50(over50W, rollW, in.dryGrass)),
                            liftoffKIAS, at50ftKIAS, notes), weights,
                 WindLocals(l, factor, rollW, over50W))

\* Lines 137-148: the clamp and the two lookups.
lookup(in, xs, ys, weights, lower, upper, tw, liftoffKIAS, at50ftKIAS, rollGrid, over50Grid, pa, notes0) ==
  LET roll == bilinear(pa, in.oatC, xs, ys, rollGrid)
      over50 == bilinear(pa, in.oatC, xs, ys, over50Grid)
  IN  finish(in, weights, liftoffKIAS, at50ftKIAS,
             clampNotes(notes0, in.pressureAltitudeFt, At(xs, 0)), roll, over50,
             Locals(lower, upper, tw, rollGrid, over50Grid, pa, roll, over50))

\* Lines 116-135: the speeds and the grids blended by weight.
blend(in, xs, ys, weights, lower, upper, tw, notes0) ==
  lookup(in, xs, ys, weights, lower, upper, tw,
         blendSpeed(lower.speeds_kias.liftoff, upper.speeds_kias.liftoff, tw),
         blendSpeed(lower.speeds_kias.at_50ft, upper.speeds_kias.at_50ft, tw),
         weightInterp(in.weightLb,
                      [w |-> lower.weight_lb, grid |-> lower.ground_roll_ft],
                      [w |-> upper.weight_lb, grid |-> upper.ground_roll_ft]),
         weightInterp(in.weightLb,
                      [w |-> lower.weight_lb, grid |-> lower.to_clear_50ft_ft],
                      [w |-> upper.weight_lb, grid |-> upper.to_clear_50ft_ft]),
         workingPA(in.pressureAltitudeFt, At(xs, 0)), notes0)

\* Lines 106-114: the bracketing rows.
bracket(in, xs, ys, weights, br, notes0) ==
  blend(in, xs, ys, weights, br.lower, br.upper,
        weightFraction(in.weightLb, br.lower, br.upper), notes0)

\* Lines 91-104: the weight check.
checkWeight(in, xs, ys, sc, notes0) ==
  LET weightsSorted == sc.sorted
      wMin == At(weightsSorted, 0).weight_lb
      wMax == At(weightsSorted, Len(weightsSorted) - 1).weight_lb
  IN  IF weightOutOfRange(in.weightLb, wMin, wMax)
      THEN Returned(weightRangeResult(in.weightLb, wMin, wMax), sc.source, NoLocals)
      ELSE bracket(in, xs, ys, sc.source, bracketWeights(weightsSorted, in.weightLb), notes0)

\* The outcome of one call: the returned record or a thrown TypeError, the
\* contents of data.grid.weights after the call, and the call's locals.
calculate(d, in, previousNotes) ==
  checkWeight(in,
              [k \in 1..Len(d.grid.pressure_altitudes_ft) |->
                 normalizePA(d.grid.pressure_altitudes_ft[k])],
              d.grid.temperatures_c,
              sortedCopy(d.grid.weights),
              freshNotes(previousNotes))

-----------------------------------------------------------------------------
(* Tables and requests *)

MaxAxisLen == 3

MaxRows == 3

\* Axis of n values; the first altitude is either the symbolic 'SL' or 1000 ft.
AltitudeAxis(first, n) ==
  [k \in 1..n |-> IF k = 1 THEN first
                  ELSE Num(normalizePA(first)[1] + 2000 * (k - 1))]

TemperatureAxis(n) == [k \in 1..n |-> Num(20 * (k - 1))]

rollCell(k, i, j) == 500 + 50 * k + 100 * i + 10 * j + 7 * i * j + 3 * k * i

over50Cell(k, i, j) == 900 + 90 * k + 170 * i + 25 * j + 11 * i * j + 5 * k * j

\* Row k of n; with holes, the lightest row lacks one ground-roll cell and
\* the heaviest row one cell of the distance over the obstacle.
WeightRow(k, n, rows, cols, holes) ==
  LET ni == IF rows > 1 THEN 1 ELSE 0
      nj == IF cols > 1 THEN 1 ELSE 0
      hole(row, i, j) == holes /\ k = row /\ i = ni /\ j = nj
  IN  [weight_lb |-> Num(900 + 100 * k),
       speeds_kias |-> [liftoff |-> Num(45 + 5 * k), at_50ft |-> Num(52 + 6 * k)],
       ground_roll_ft |->
         [i \in 1..rows |-> [j \in 1..cols |->
            IF hole(0, i - 1, j - 1) THEN Null ELSE Num(rollCell(k, i - 1, j - 1))]],
       to_clear_50ft_ft |->
         [i \in 1..rows |-> [j \in 1..cols |->
            IF hole(n - 1, i - 1, j - 1) THEN Null ELSE Num(over50Cell(k, i - 1, j - 1))]]]

\* Stored order of the n weight rows: ascending, or rotated by one.
WeightOrder(n, rotated) ==
  [p \in 1..n |-> IF rotated THEN p % n ELSE p - 1]

\* Two storage variants: 'SL' first with ascending rows, or a 1000 ft first
\* altitude with the rows stored out of order.
Table(variant, na, nt, n, holes) ==
  [grid |->
    [pressure_altitudes_ft |-> AltitudeAxis(IF variant = 0 THEN SL ELSE Num(1000), na),
     temperatures_c |-> TemperatureAxis(nt),
     weights |-> [p \in 1..n |->
                    WeightRow(WeightOrder(n, variant = 1)[p], n, na, nt, holes)]]]

\* A row whose grids do not vary with temperature: one distance per altitude.
FlatRow(w, liftoff, at50, rolls, over50s, cols) ==
  [weight_lb |-> Num(w),
   speeds_kias |-> [liftoff |-> Num(liftoff), at_50ft |-> Num(at50)],
   ground_roll_ft |-> [i \in 1..Len(rolls) |-> [j \in 1..cols |-> Num(rolls[i])]],
   to_clear_50ft_ft |-> [i \in 1..Len(over50s) |-> [j \in 1..cols |-> Num(over50s[i])]]]

\* The toy table of the specification's concrete scenarios.
ScenarioTable ==
  [grid |->
    [pressure_altitudes_ft |-> <<Num(0), Num(2000)>>,
     temperatures_c |-> <<Num(0), Num(20)>>,
     weights |-> <<FlatRow(900, 45, 52, <<500, 600>>, <<900, 1080>>, 2),
                   FlatRow(1000, 50, 58, <<550, 660>>, <<990, 1190>>, 2)>>]]

\* A table of cells that are present and zero: every ground roll, and the
\* sea-level distance over the obstacle.
ZeroTable ==
  [grid |->
    [pressure_altitudes_ft |-> <<SL, Num(2000)>>,
     temperatures_c |-> <<Num(0), Num(20)>>,
     weights |-> <<FlatRow(900, 45, 52, <<0, 0>>, <<0, 1080>>, 2),
                   FlatRow(1000, 50, 58, <<0, 0>>, <<0, 1190>>, 2)>>]]

Tables ==
  {Table(variant, na, nt, n, holes) :
     variant \in {0, 1}, na \in 1..MaxAxisLen, nt \in {1, MaxAxisLen},
     n \in 2..MaxRows, holes \in BOOLEAN}
  \cup {ScenarioTable, ZeroTable}

\* Tables outside the data model that the guards of perf.ts:59 and 117 are
\* written for: a single weight row, and two rows of one weight (the second
\* with the contents of the next heavier row) followed by n - 2 regular rows.
SingleRowTable(na, nt, holes) ==
  [grid |->
    [pressure_altitudes_ft |-> AltitudeAxis(SL, na),
     temperatures_c |-> TemperatureAxis(nt),
     weights |-> <<WeightRow(0, 1, na, nt, holes)>>]]

DuplicateTable(na, nt, n, holes) ==
  [grid |->
    [pressure_altitudes_ft |-> AltitudeAxis(SL, na),
     temperatures_c |-> TemperatureAxis(nt),
     weights |-> [p \in 1..n |->
                    IF p = 2
                    THEN [WeightRow(1, 2, na, nt, holes) EXCEPT !.weight_lb = Num(900)]
                    ELSE WeightRow(IF p = 1 THEN 0 ELSE p - 2, 2, na, nt, holes)]]]

DegenerateTables ==
  {SingleRowTable(na, nt, holes) :
     na \in 2..MaxAxisLen, nt \in {1, MaxAxisLen}, holes \in BOOLEAN}
  \cup {DuplicateTable(na, nt, n, holes) :
          na \in 2..MaxAxisLen, nt \in {1, MaxAxisLen}, n \in 2..MaxRows,
          holes \in BOOLEAN}

Request(pa, oat, w, wind, grass) ==
  [pressureAltitudeFt |-> pa, oatC |-> oat, weightLb |-> w,
   windKtSigned |-> wind, dryGrass |-> grass]

Altitudes == {Num(-500), Num(0), Num(1000), Num(2000), Num(5000), Num(7000)}

Temperatures == {Num(-10), Num(0), Num(5), Num(20), Num(40)}

Weights == {Num(800), Num(900), Num(925), Num(950), Num(1000), Num(1050), Num(1200)}

Winds == {Num(-20), Num(-10), Num(-5), Num(0), Num(10), Rat(101, 10), Num(45), Num(50)}

\* Every altitude, temperature and weight in still air on a paved runway,
\* and every wind and surface at a few of those points.
GeometryRequests ==
  {Request(pa, oat, w, Num(0), FALSE) :
     pa \in Altitudes, oat \in Temperatures, w \in Weights}

WindRequests ==
  {Request(pa, oat, w, wind, grass) :
     pa \in {Num(1000)}, oat \in {Num(5), Num(40)},
     w \in {Num(800), Num(925), Num(1050)}, wind \in Winds, grass \in BOOLEAN}

Requests == GeometryRequests \cup WindRequests

\* A few requests, one per path through calculate, for sequences of calls.
SeqRequests ==
  {Request(Num(1000), Num(5), Num(1200), Num(0), FALSE),
   Request(Num(-500), Num(5), Num(925), Num(10), TRUE),
   Request(Num(-500), Num(-10), Num(950), Num(0), FALSE),
   Request(Num(1000), Num(20), Num(1000), Num(-5), FALSE),
   Request(Num(7000), Num(0), Num(900), Num(0), FALSE)}

\* An earlier call kept for comparison, and whether a call with another
\* request has been made since.
ScenarioRequest == Request(Num(0), Num(0), Num(950), Num(0), FALSE)

NoMemo == [set |-> FALSE, between |-> FALSE,
           input |-> Request(Num(0), Num(0), Num(0), Num(0), FALSE),
           out |-> NoOutput, status |-> "idle"]

-----------------------------------------------------------------------------
(* api/metar.ts and server/server.mjs: the METAR proxy *)

MaxIcaoLen == 5

\* Characters of a query parameter: a lower-case letter, an upper-case
\* letter and the sharp s (U+00DF), whose upper case is the two letters SS.
Chars == {"a", "A", "sz"}

upperChar(c) ==
  IF c = "a" THEN <<"A">> ELSE IF c = "sz" THEN <<"S", "S">> ELSE <<c>>

\* String.prototype.toUpperCase.
RECURSIVE toUpperCase(_)
toUpperCase(str) ==
  IF str = <<>> THEN <<>> ELSE upperChar(Head(str)) \o toUpperCase(Tail(str))

\* searchParams.get('icao') is null, and req.query.icao undefined, when the
\* parameter is missing.
Missing == <<"missing">>

Params == {Missing} \cup UNION {[1..n -> Chars] : n \in 0..MaxIcaoLen}

\* (param || '').toUpperCase()
icaoOf(param) == toUpperCase(IF param = Missing THEN <<>> ELSE param)

\* !icao || icao.length !== 4
icaoRejected(icao) == icao = <<>> \/ Len(icao) # 4

Handlers == {"edge", "express"}

\* How a fetch and the reading of its body end: a parsed body, a status
\* that is not ok, a rejected fetch, or (AWC only) a body that is not JSON.
AwcOutcomes == {"ok", "http", "network", "json"}

NoaaOutcomes == {"ok", "http", "network"}

Response(code, source) == [status |-> code, source |-> source]

NoProxy ==
  [impl |-> "none", param |-> Missing, icao |-> <<>>, pc |-> "idle",
   contacted |-> <<>>, failed |-> {}, responses |-> <<>>]

Received(impl, param) == [NoProxy EXCEPT !.impl = impl, !.param = param, !.pc = "received"]

-----------------------------------------------------------------------------
(* App.tsx: the state of the component *)

\* runways.json and airports.json: one airport with two runway ends and an
\* elevation; every other code has no entry.
EGLL == <<"E", "G", "L", "L">>

RUNWAYS(icao) ==
  IF icao = EGLL
  THEN <<[ident |-> "09", heading_degT |-> Num(90)],
         [ident |-> "27", heading_degT |-> Num(270)]>>
  ELSE <<>>

\* AIRPORTS[code]?.elevation_ft ?? null
AIRPORTS(code) == IF code = EGLL THEN Num(1000) ELSE Null

\* What can be typed into the ICAO field (maxLength 4): the airport, a
\* short code after a blank, and two sharp s, an airport without entry.
TypedIcaos == {EGLL, <<" ", "E", "G", "L">>, <<"sz", "sz">>}

RECURSIVE trimStart(_)
trimStart(str) ==
  IF str # <<>> /\ Head(str) = " " THEN trimStart(Tail(str)) ELSE str

RECURSIVE trimEnd(_)
trimEnd(str) ==
  IF str # <<>> /\ str[Len(str)] = " " THEN trimEnd(SubSeq(str, 1, Len(str) - 1)) ELSE str

\* String.prototype.trim.
trim(str) == trimEnd(trimStart(str))

\* The effect on [icao]: the first runway of the airport, or none.
firstRunway(icao) ==
  IF Len(RUNWAYS(icao)) > 0 THEN RUNWAYS(icao)[1].ident ELSE ""

\* The useState defaults, after the first render and its effect.  metar and
\* pending hold at most one element: the record shown, and the values
\* enclosed by a fetchMETAR that awaits its response.
NoUi ==
  [icao |-> EGLL, selectedRunway |-> firstRunway(EGLL),
   pressureAltitudeFt |-> Num(0), oatC |-> Num(15), weightKg |-> Num(950),
   windType |-> "head", windMagKt |-> Num(0), dryGrass |-> FALSE,
   metar |-> <<>>, metarStatus |-> "", pending |-> <<>>]

-----------------------------------------------------------------------------
(* Calls *)

Init ==
  /\ data \in Tables
  /\ input \in Requests
  /\ out = NoOutput
  /\ status = "idle"
  /\ locals = NoLocals
  /\ memo = NoMemo
  /\ proxy = NoProxy
  /\ ui = NoUi

\* calculate(data, req): one synchronous call against the shared table.
Call(req) ==
  \E r \in {calculate(data, req, out.notes)} :
    /\ input' = req
    /\ data' = [data EXCEPT !.grid.weights = r.weights]
    /\ out' = r.value
    /\ status' = IF r.threw THEN "threw" ELSE "returned"
    /\ locals' = r.locals
    /\ memo' = IF memo.set /\ req # memo.input
               THEN [memo EXCEPT !.between = TRUE] ELSE memo
    /\ UNCHANGED <<proxy, ui>>

Calculate == Call(input)

Next == Calculate

Spec == Init /\ [][Next]_vars

\* Sequences of calls on one table, in any order.
InitSeq ==
  /\ data \in Tables
  /\ input \in SeqRequests
  /\ out = NoOutput
  /\ status = "idle"
  /\ locals = NoLocals
  /\ memo = NoMemo
  /\ proxy = NoProxy
  /\ ui = NoUi

CallAny == \E req \in SeqRequests : Call(req)

Remember ==
  /\ status # "idle"
  /\ ~memo.set
  /\ memo' = [set |-> TRUE, between |-> FALSE, input |-> input,
              out |-> out, status |-> status]
  /\ UNCHANGED <<data, input, out, status, locals, proxy, ui>>

NextSeq == CallAny \/ Remember

SpecSeq == InitSeq /\ [][NextSeq]_vars

\* Calls on a table with a single row or with two rows of one weight.
InitDegenerate ==
  /\ data \in DegenerateTables
  /\ input \in GeometryRequests
  /\ out = NoOutput
  /\ status = "idle"
  /\ locals = NoLocals
  /\ memo = NoMemo
  /\ proxy = NoProxy
  /\ ui = NoUi

NextDegenerate == Calculate

SpecDegenerate == InitDegenerate /\ [][NextDegenerate]_vars

-----------------------------------------------------------------------------
(* One request through the METAR handler *)

respond(p, code, source) ==
  [p EXCEPT !.responses = Append(@, Response(code, source)), !.pc = "done"]

\* A handler that answers 502 as soon as AWC fails.
afterAwcNoFallback(p, outcome) ==
  IF outcome = "ok" THEN respond(p, 200, "awc-json")
  ELSE respond([p EXCEPT !.failed = @ \cup {"AWC"}], 502, "none")

\* The inner try around fetchAWC: its data with 200, or on any failure the
\* call of fetchNOAA.
afterAwc(p, outcome) ==
  IF outcome = "ok" THEN respond(p, 200, "awc-json")
  ELSE [p EXCEPT !.failed = @ \cup {"AWC"}, !.pc = "noaa",
                 !.contacted = Append(@, "NOAA")]

\* fetchNOAA: its data with 200, or 502 on any failure.
afterNoaa(p, outcome) ==
  IF outcome = "ok" THEN respond(p, 200, "noaa-txt")
  ELSE respond([p EXCEPT !.failed = @ \cup {"NOAA"}], 502, "none")

\* The parameter check, and the call of fetchAWC when it passes.
afterValidate(p) ==
  IF icaoRejected(icaoOf(p.param))
  THEN respond([p EXCEPT !.icao = icaoOf(p.param)], 400, "none")
  ELSE [p EXCEPT !.icao = icaoOf(p.param), !.pc = "awc", !.contacted = <<"AWC">>]

Validate ==
  /\ proxy.pc = "received"
  /\ proxy' = afterValidate(proxy)
  /\ UNCHANGED <<data, input, out, status, locals, memo, ui>>

AwcSettles ==
  /\ proxy.pc = "awc"
  /\ \E outcome \in AwcOutcomes : proxy' = afterAwc(proxy, outcome)
  /\ UNCHANGED <<data, input, out, status, locals, memo, ui>>

NoaaSettles ==
  /\ proxy.pc = "noaa"
  /\ \E outcome \in NoaaOutcomes : proxy' = afterNoaa(proxy, outcome)
  /\ UNCHANGED <<data, input, out, status, locals, memo, ui>>

InitMetar ==
  /\ data = ScenarioTable
  /\ input = ScenarioRequest
  /\ out = NoOutput
  /\ status = "idle"
  /\ locals = NoLocals
  /\ memo = NoMemo
  /\ proxy \in {Received(impl, param) : impl \in Handlers, param \in Params}
  /\ ui = NoUi

NextMetar == Validate \/ AwcSettles \/ NoaaSettles

\* Every await of the handler resumes: an upstream fetch settles, with a
\* response or a rejection.
SpecMetar == InitMetar /\ [][NextMetar]_vars /\ WF_vars(NextMetar)

-----------------------------------------------------------------------------
(* App.tsx: the rendering of a result *)

M_PER_FT == Rat(3048, 10000)

\* A conversion that tests the distance for truthiness.
mFromFtFalsy(ft) == IF ft = Null \/ ft = Num(0) THEN Null ELSE MathRound(RMul(ft, M_PER_FT))

mFromFt(ft) == IF ft = Null THEN Null ELSE MathRound(RMul(ft, M_PER_FT))

Placeholder == <<"-">>

\* {mFromFt(ft) == null ? '-' : `${mFromFt(ft)} m`}
renderDistance(ft) ==
  IF mFromFt(ft) = Null THEN Placeholder ELSE <<mFromFt(ft), "m">>

-----------------------------------------------------------------------------
(* App.tsx: the handlers of the component *)

\* 2.20462262185 to three decimals.
LB_PER_KG == Rat(2205, 1000)

lbFromKg(kg) == RMul(kg, LB_PER_KG)

\* The remainder of JavaScript: the sign of the dividend.
jsRem(a, n) == IF a >= 0 THEN a % n ELSE -((-a) % n)

\* normDeg, on a whole number of degrees.
normDeg(delta) == Num(jsRem(jsRem(delta[1] + 180, 360) + 360, 360) - 180)

\* Math.cos((Math.PI / 180) * delta) at the angles whose cosine is rational.
cosDeg(delta) ==
  CASE RAbs(delta) = Num(0) -> Num(1)
    [] RAbs(delta) = Num(60) -> Rat(1, 2)
    [] RAbs(delta) = Num(90) -> Num(0)
    [] RAbs(delta) = Num(120) -> Rat(-1, 2)
    [] RAbs(delta) = Num(180) -> Num(-1)

\* c172m_takeoff.json, reduced to two weights, two altitudes and two
\* temperatures.
dataset ==
  [grid |->
    [pressure_altitudes_ft |-> <<SL, Num(2000)>>,
     temperatures_c |-> <<Num(0), Num(20)>>,
     weights |-> <<FlatRow(2000, 45, 52, <<500, 600>>, <<900, 1080>>, 2),
                   FlatRow(2200, 50, 58, <<550, 660>>, <<990, 1190>>, 2)>>]]

\* A wind direction that is not a number.
VRB == <<"VRB">>

\* typeof v === 'number'
isNumber(v) == Len(v) = 2

\* (typeof a === 'number' ? a : null) ?? (typeof b === 'number' ? b : null) ?? ... ?? null
RECURSIVE firstNumber(_)
firstNumber(vs) ==
  IF vs = <<>> THEN Null
  ELSE IF isNumber(Head(vs)) THEN Head(vs) ELSE firstNumber(Tail(vs))

\* A record of the response with none of the fields the component reads.
NoFields ==
  [tempC |-> Undefined, temp |-> Undefined, temperature |-> Undefined,
   obs_temp |-> Undefined, altim_in_hg |-> Undefined,
   altimeter_in |-> Undefined, wind_dir_degrees |-> Undefined,
   wind_dir |-> Undefined, wind_degrees |-> Undefined,
   wind_speed_kt |-> Undefined, wind_speed_kts |-> Undefined,
   wind_speed |-> Undefined]

\* The record as the proxy normalises it.
Normalized(dir, spd, temp, altim) ==
  [NoFields EXCEPT !.wind_dir_degrees = dir, !.wind_speed_kt = spd,
                   !.tempC = temp, !.altim_in_hg = altim]

\* Records of the proxy with and without a wind direction and a wind
\* speed, one with a temperature and an altimeter setting, and a record of
\* the other shapes the component accepts.
Items ==
  {Normalized(dir, spd, Null, Null) : dir \in {Null, Num(150)}, spd \in {Null, Num(10)}}
  \cup {Normalized(Null, Num(0), Rat(196, 10), Rat(2992, 100)),
        [NoFields EXCEPT !.wind_dir_degrees = VRB, !.wind_degrees = Num(150),
                         !.wind_speed_kts = Num(10), !.obs_temp = Num(20),
                         !.altimeter_in = Rat(2992, 100)]}

\* How the fetch of /api/metar ends: a status that is not ok, a rejected
\* fetch, a body that is not JSON, or an array of no or one record.
Failure(kind) == [ok |-> FALSE, kind |-> kind, json |-> <<>>]

Fetched(json) == [ok |-> TRUE, kind |-> "ok", json |-> json]

Replies ==
  {Failure(kind) : kind \in {"http", "network", "json"}}
  \cup {Fetched(<<>>)} \cup {Fetched(<<item>>) : item \in Items}

\* json[0]
itemOf(json) == IF json = <<>> THEN NoFields ELSE json[1]

tempCOf(item) == firstNumber(<<item.tempC, item.temp, item.temperature, item.obs_temp>>)

altimOf(item) == firstNumber(<<item.altim_in_hg, item.altimeter_in>>)

windDirTrueOf(item) == firstNumber(<<item.wind_dir_degrees, item.wind_dir, item.wind_degrees>>)

windKtOf(item) == firstNumber(<<item.wind_speed_kt, item.wind_speed_kts, item.wind_speed>>)

\* runways.find(rw => rw.ident === selectedRunway): the matches, in order.
findRunway(runways, ident) == SelectSeq(runways, LAMBDA rw : rw.ident = ident)

\* A component along the runway that is left unset without a direction.
headCompNoDefault(windKt, windDirTrue, rw) ==
  IF isNumber(windKt) /\ isNumber(windDirTrue)
  THEN MathRound(RMul(windKt, cosDeg(normDeg(RSub(windDirTrue, rw.heading_degT)))))
  ELSE Null

\* headComp: the component along the runway, zero without a direction and
\* null without a speed.
headComp(windKt, windDirTrue, rw) ==
  IF isNumber(windKt) /\ isNumber(windDirTrue)
  THEN MathRound(RMul(windKt, cosDeg(normDeg(RSub(windDirTrue, rw.heading_degT)))))
  ELSE IF isNumber(windKt) THEN Num(0) ELSE Null

\* setWindType and setWindMagKt from a component that is a number.
withHeadComp(u, h) ==
  IF isNumber(h)
  THEN [u EXCEPT !.windType = IF h[1] >= 0 THEN "head" ELSE "tail", !.windMagKt = RAbs(h)]
  ELSE u

\* The wind section of fetchMETAR, with the runway and the runways of the
\* render that started it.
withWind(u, item, closure) ==
  IF closure.selectedRunway # "" /\ findRunway(closure.runways, closure.selectedRunway) # <<>>
  THEN withHeadComp(u, headComp(windKtOf(item), windDirTrueOf(item), findRunway(closure.runways, closure.selectedRunway)[1]))
  ELSE u

\* setOAT(Math.round(tempC)) for a temperature that is a number.
withTemperature(u, item) ==
  IF isNumber(tempCOf(item)) THEN [u EXCEPT !.oatC = MathRound(tempCOf(item))] ELSE u

\* setPA(Math.round(elev + (29.92 - altim_in_hg) * 1000)) for an airport of
\* known elevation and an altimeter setting that is a number.
withPressureAltitude(u, item, code) ==
  IF isNumber(AIRPORTS(code)) /\ isNumber(altimOf(item))
  THEN [u EXCEPT !.pressureAltitudeFt = MathRound(RAdd(AIRPORTS(code), RMul(RSub(Rat(2992, 100), altimOf(item)), Num(1000))))]
  ELSE u

\* fetchMETAR after its awaits: the try block on a response, the catch
\* block on a failure.
settled(u, reply) ==
  IF ~reply.ok
  THEN [u EXCEPT !.metarStatus = "Failed", !.metar = <<>>, !.pending = <<>>]
  ELSE withWind(
         withPressureAltitude(
           withTemperature(
             [u EXCEPT !.metar = reply.json, !.metarStatus = "", !.pending = <<>>],
             itemOf(reply.json)),
           itemOf(reply.json), u.pending[1].code),
         itemOf(reply.json), u.pending[1])

\* fetchMETAR up to its first await: the message for a code that is not
\* four characters, or the request with what the render encloses.
started(u) ==
  IF Len(toUpperCase(trim(u.icao))) # 4
  THEN [u EXCEPT !.metarStatus = "Enter a 4-letter ICAO"]
  ELSE [u EXCEPT !.metarStatus = "Fetching", !.pending = <<[code |-> toUpperCase(trim(u.icao)), selectedRunway |-> u.selectedRunway, runways |-> RUNWAYS(toUpperCase(u.icao))]>>]

\* windType === 'head' ? Math.abs(windMagKt) : -Math.abs(windMagKt)
windKtSignedOf(u) ==
  IF u.windType = "head" THEN RAbs(u.windMagKt) ELSE RNeg(RAbs(u.windMagKt))

\* The request onCalculate builds from the inputs.
requestOf(u) ==
  Request(u.pressureAltitudeFt, u.oatC, lbFromKg(u.weightKg), windKtSignedOf(u), u.dryGrass)

WindTypes == {"head", "tail"}

WindMags == {Num(0), Num(-5)}

\* The values of the runway select: the runways of the airport, or ''.
runwayOptions(icao) ==
  IF Len(RUNWAYS(icao)) > 0
  THEN {RUNWAYS(icao)[k].ident : k \in 1..Len(RUNWAYS(icao))}
  ELSE {""}

\* onChange of the ICAO field, and the effect on [icao] when it changed.
SetIcao ==
  /\ \E typed \in TypedIcaos :
       ui' = IF toUpperCase(typed) = ui.icao THEN ui
             ELSE [ui EXCEPT !.icao = toUpperCase(typed), !.selectedRunway = firstRunway(toUpperCase(typed))]
  /\ UNCHANGED <<data, input, out, status, locals, memo, proxy>>

SetSelectedRunway ==
  /\ \E ident \in runwayOptions(toUpperCase(ui.icao)) : ui' = [ui EXCEPT !.selectedRunway = ident]
  /\ UNCHANGED <<data, input, out, status, locals, memo, proxy>>

SetWindType ==
  /\ \E type \in WindTypes : ui' = [ui EXCEPT !.windType = type]
  /\ UNCHANGED <<data, input, out, status, locals, memo, proxy>>

SetWindMagKt ==
  /\ \E kt \in WindMags : ui' = [ui EXCEPT !.windMagKt = kt]
  /\ UNCHANGED <<data, input, out, status, locals, memo, proxy>>

\* A click on Fetch METAR, with no earlier request still in flight.
FetchMETAR ==
  /\ ui.pending = <<>>
  /\ ui' = started(ui)
  /\ UNCHANGED <<data, input, out, status, locals, memo, proxy>>

\* The response arrives and the rest of fetchMETAR runs.
MetarSettles ==
  /\ ui.pending # <<>>
  /\ \E reply \in Replies : ui' = settled(ui, reply)
  /\ UNCHANGED <<data, input, out, status, locals, memo, proxy>>

\* A click on Calculate: calculate(dataset, ...) and setResult.
OnCalculate ==
  /\ \E r \in {calculate(data, requestOf(ui), out.notes)} :
       /\ input' = requestOf(ui)
       /\ data' = [data EXCEPT !.grid.weights = r.weights]
       /\ out' = r.value
       /\ status' = IF r.threw THEN "threw" ELSE "returned"
       /\ locals' = r.locals
  /\ UNCHANGED <<memo, proxy, ui>>

\* A click on Reset: the defaults of the inputs, and no result.
OnReset ==
  /\ ui' = [ui EXCEPT !.pressureAltitudeFt = Num(0), !.oatC = Num(15),
                      !.weightKg = Num(950), !.windType = "head",
                      !.windMagKt = Num(0), !.dryGrass = FALSE]
  /\ out' = NoOutput
  /\ status' = "idle"
  /\ UNCHANGED <<data, input, locals, memo, proxy>>

InitUi ==
  /\ data = dataset
  /\ input = requestOf(NoUi)
  /\ out = NoOutput
  /\ status = "idle"
  /\ locals = NoLocals
  /\ memo = NoMemo
  /\ proxy = NoProxy
  /\ ui = NoUi

NextUi ==
  \/ SetIcao
  \/ SetSelectedRunway
  \/ SetWindType
  \/ SetWindMagKt
  \/ FetchMETAR
  \/ MetarSettles
  \/ OnCalculate
  \/ OnReset

SpecUi == InitUi /\ [][NextUi]_vars

-----------------------------------------------------------------------------
(* The table as the specification describes it *)

Called == status # "idle"

TableWeights(d) == {d.grid.weights[p].weight_lb : p \in 1..Len(d.grid.weights)}

MinWeight(d) == CHOOSE w \in TableWeights(d) : \A v \in TableWeights(d) : RLe(w, v)

MaxWeight(d) == CHOOSE w \in TableWeights(d) : \A v \in TableWeights(d) : RLe(v, w)

InWeightRange(d, w) == RLe(MinWeight(d), w) /\ RLe(w, MaxWeight(d))

RowOf(d, w) ==
  d.grid.weights[CHOOSE p \in 1..Len(d.grid.weights) : d.grid.weights[p].weight_lb = w]

\* The adjacent rows around w; a weight equal to an interior row is the upper row.
UpperWeight(d, w) ==
  LET c == {v \in TableWeights(d) : RLe(w, v) /\ v # MinWeight(d)}
  IN  CHOOSE v \in c : \A u \in c : RLe(v, u)

LowerWeight(d, w) ==
  LET c == {v \in TableWeights(d) : RLt(v, UpperWeight(d, w))}
  IN  CHOOSE v \in c : \A u \in c : RLe(u, v)

Fraction(d, w) ==
  RDiv(RSub(w, LowerWeight(d, w)), RSub(UpperWeight(d, w), LowerWeight(d, w)))

AltitudeValues(d) ==
  [k \in 1..Len(d.grid.pressure_altitudes_ft) |->
     IF d.grid.pressure_altitudes_ft[k] = SL THEN Num(0)
     ELSE d.grid.pressure_altitudes_ft[k]]

PaMin(d) == AltitudeValues(d)[1]

PaMax(d) == AltitudeValues(d)[Len(AltitudeValues(d))]

TMin(d) == d.grid.temperatures_c[1]

TMax(d) == d.grid.temperatures_c[Len(d.grid.temperatures_c)]

\* The 0-based index of the first interval [axis[i], axis[i + 1]] holding x.
BracketOf(x, axis) ==
  LET c == {i \in 0..(Len(axis) - 2) : RLe(axis[i + 1], x) /\ RLe(x, axis[i + 2])}
  IN  IF c = {} THEN NoIndex ELSE CHOOSE i \in c : \A k \in c : i <= k

IsClampNote(n) == n[1] = "clamp"

IsWeightNote(n) == n[1] = "weight"

HasNote(notes, n) == \E k \in 1..Len(notes) : notes[k] = n

ClampCount(notes) == Cardinality({k \in 1..Len(notes) : IsClampNote(notes[k])})

NoDistances(o) == o.groundRollFt = Null /\ o.toClear50Ft = Null

NoSpeeds(o) == o.liftoffKIAS = Null /\ o.at50ftKIAS = Null

-----------------------------------------------------------------------------
(* Claims *)

\* C1: a request whose weight is below the minimum or above the maximum
\* table weight returns all four numeric fields absent and exactly one note,
\* which carries both bounds, whatever the altitude, OAT, wind and surface.
C1_WeightOutOfRange ==
  (Called /\ ~InWeightRange(data, input.weightLb)) =>
    /\ status = "returned"
    /\ NoDistances(out) /\ NoSpeeds(out)
    /\ Len(out.notes) = 1
    /\ IsWeightNote(out.notes[1])
    /\ out.notes[1][3] = MinWeight(data)
    /\ out.notes[1][4] = MaxWeight(data)

C1_Witness ==
  /\ status = "returned"
  /\ RLt(MaxWeight(data), input.weightLb)
  /\ RLt(input.pressureAltitudeFt, PaMin(data))
  /\ Len(out.notes) = 1

WorkingAltitude(d, pa) == IF RLt(pa, PaMin(d)) THEN PaMin(d) ELSE pa

\* Some corner of the interval pair around (pa, oat) is absent in the lower
\* or the upper weight row, in either grid.
CornerAbsent(d, w, pa, oat) ==
  LET i == BracketOf(pa, AltitudeValues(d))
      j == BracketOf(oat, d.grid.temperatures_c)
      lo == RowOf(d, LowerWeight(d, w))
      hi == RowOf(d, UpperWeight(d, w))
  IN  /\ i # NoIndex /\ j # NoIndex
      /\ \E row \in {lo, hi} : \E di \in {0, 1} : \E dj \in {0, 1} :
           \/ row.ground_roll_ft[i + 1 + di][j + 1 + dj] = Null
           \/ row.to_clear_50ft_ft[i + 1 + di][j + 1 + dj] = Null

LiftoffAt(d, w) ==
  MathRound(lerp(RowOf(d, LowerWeight(d, w)).speeds_kias.liftoff,
                 RowOf(d, UpperWeight(d, w)).speeds_kias.liftoff, Fraction(d, w)))

At50ftAt(d, w) ==
  MathRound(lerp(RowOf(d, LowerWeight(d, w)).speeds_kias.at_50ft,
                 RowOf(d, UpperWeight(d, w)).speeds_kias.at_50ft, Fraction(d, w)))

\* C2: with the weight in range, an altitude above the last axis value, an
\* OAT outside the temperature axis, or an absent corner cell gives absent
\* distances, the blended rounded speeds and the extrapolation note; the
\* altitude is not clamped at the high end.
C2_GridExtrapolation ==
  (/\ Called
   /\ InWeightRange(data, input.weightLb)
   /\ \/ RLt(PaMax(data), WorkingAltitude(data, input.pressureAltitudeFt))
      \/ RLt(input.oatC, TMin(data))
      \/ RLt(TMax(data), input.oatC)
      \/ CornerAbsent(data, input.weightLb,
                      WorkingAltitude(data, input.pressureAltitudeFt), input.oatC)) =>
    /\ status = "returned"
    /\ NoDistances(out)
    /\ out.liftoffKIAS = LiftoffAt(data, input.weightLb)
    /\ out.at50ftKIAS = At50ftAt(data, input.weightLb)
    /\ HasNote(out.notes, ExtrapolationNote)

C2_Witness ==
  /\ status = "returned"
  /\ InWeightRange(data, input.weightLb)
  /\ RLt(PaMax(data), input.pressureAltitudeFt)
  /\ RLe(TMin(data), input.oatC) /\ RLe(input.oatC, TMax(data))
  /\ Len(data.grid.pressure_altitudes_ft) > 1
  /\ NoDistances(out) /\ ~NoSpeeds(out)
  /\ out.notes = <<ExtrapolationNote>>

\* C3: for every table meeting the data-model invariants, an axis of length
\* 1 included, and every request, calculate returns a record and never throws.
C3_NeverThrows == status # "threw"

RemoveAt(seq, k) == SubSeq(seq, 1, k - 1) \o SubSeq(seq, k + 1, Len(seq))

C5_ClampNoteFirst ==
  (/\ status = "returned"
   /\ InWeightRange(data, input.weightLb)
   /\ RLt(input.pressureAltitudeFt, PaMin(data))
   /\ NoDistances(out)) =>
    /\ Len(out.notes) = 2
    /\ IsClampNote(out.notes[1])
    /\ out.notes[2] = ExtrapolationNote

Corners == {0, 1} \X {0, 1}

IsNumber(v) == v # Null /\ v # Undefined /\ v # TypeError

\* The lookup result res on the blended grid g obeys strict null propagation
\* at the interval pair (i, j).
NullPropagates(g, i, j, res) ==
  IF \E c \in Corners : g[i + 1 + c[1]][j + 1 + c[2]] = Null
  THEN res = Null
  ELSE IsNumber(res)

\* C6: for a point inside both axes, the lookup on a weight-blended grid is
\* absent when any one of the four corner cells is absent, whatever the
\* other corners and the interpolation fractions are, and present when all
\* four are present.
C6_NullPropagation ==
  LET i == BracketOf(locals.pa, AltitudeValues(data))
      j == BracketOf(input.oatC, data.grid.temperatures_c)
  IN  (locals.reached /\ i # NoIndex /\ j # NoIndex) =>
        /\ NullPropagates(locals.rollGrid, i, j, locals.roll)
        /\ NullPropagates(locals.over50Grid, i, j, locals.over50)

\* The absent corner (i + 1, j + 1) carries zero weight: the point lies on
\* the altitude node i.
C6_Witness ==
  LET i == BracketOf(locals.pa, AltitudeValues(data))
      j == BracketOf(input.oatC, data.grid.temperatures_c)
      g == locals.rollGrid
  IN  /\ locals.reached /\ i # NoIndex /\ j # NoIndex
      /\ locals.pa = AltitudeValues(data)[i + 1]
      /\ g[i + 2][j + 2] = Null
      /\ g[i + 1][j + 1] # Null /\ g[i + 1][j + 2] # Null /\ g[i + 2][j + 1] # Null
      /\ locals.roll = Null
      /\ IsNumber(locals.over50)

Between(v, a, b) == RLe(RMin(a, b), v) /\ RLe(v, RMax(a, b))

\* Speeds o1 at the lighter and o2 at the heavier weight follow the
\* direction of the row speeds lo and hi.
Monotone(o1, o2, lo, hi) ==
  /\ RLe(lo, hi) => RLe(o1, o2)
  /\ RLe(hi, lo) => RLe(o2, o1)

C8_Determinism ==
  (memo.set /\ Called /\ input = memo.input) =>
    /\ status = memo.status
    /\ out = memo.out

C8_Witness ==
  /\ memo.set /\ memo.between
  /\ input = memo.input
  /\ status = "returned"
  /\ Len(out.notes) = 2

\* C9: no call changes the table: the stored order of the weight rows, the
\* axes and every grid cell stay as loaded.
C9_TableUnchanged == [][data' = data]_vars

C9_Witness ==
  /\ memo.set /\ memo.between
  /\ status = "returned"
  /\ RLt(data.grid.weights[2].weight_lb, data.grid.weights[1].weight_lb)

HeadwindStep == Num(90)

\* The results for the headwinds below the requested one, other inputs equal.
LighterHeadwinds ==
  {w1 \in Winds : RLt(Num(0), w1) /\ RLt(w1, input.windKtSigned)}

WithWind(w1) == calculate(data, [input EXCEPT !.windKtSigned = w1], <<>>).value

HeadwindCase ==
  /\ status = "returned"
  /\ ~NoDistances(out)
  /\ RLt(Num(0), input.windKtSigned)
  /\ RLe(input.windKtSigned, Num(45))

\* C10 as stated: with distances present and headwinds 0 < w1 < w2 <= 45,
\* both returned distances for w2 are strictly smaller than those for w1.
C10_StrictlyDecreasing ==
  HeadwindCase =>
    \A w1 \in LighterHeadwinds :
      /\ RLt(out.groundRollFt, WithWind(w1).groundRollFt)
      /\ RLt(out.toClear50Ft, WithWind(w1).toClear50Ft)

\* C10 amended: both returned distances for w2 are at most those for w1,
\* and strictly smaller when the interpolated distance times (w2 - w1) / 90
\* is at least two feet.
C10_NotIncreasing ==
  HeadwindCase =>
    \A w1 \in LighterHeadwinds :
      LET gap == RDiv(RSub(input.windKtSigned, w1), HeadwindStep)
      IN  /\ RLe(out.groundRollFt, WithWind(w1).groundRollFt)
          /\ RLe(out.toClear50Ft, WithWind(w1).toClear50Ft)
          /\ RLe(Num(2), RMul(locals.roll, gap)) =>
               RLt(out.groundRollFt, WithWind(w1).groundRollFt)
          /\ RLe(Num(2), RMul(locals.over50, gap)) =>
               RLt(out.toClear50Ft, WithWind(w1).toClear50Ft)

\* Two headwinds whose ground rolls round to the same number of feet while
\* the distances over the obstacle differ.
C10_Witness ==
  /\ HeadwindCase
  /\ \E w1 \in LighterHeadwinds :
       /\ out.groundRollFt = WithWind(w1).groundRollFt
       /\ RLt(out.toClear50Ft, WithWind(w1).toClear50Ft)

Half == Rat(1, 2)

FloorWind == Num(45)

\* C11: the headwind factor is max(1 - (wind / 9) * 0.10, 0.5), never below
\* 0.5; a headwind of 45 kt or more gives the result of exactly 45 kt, whose
\* distances before the surface correction are half the interpolated ones.
C11_HeadwindFloor ==
  (status = "returned" /\ ~NoDistances(out) /\ RLt(Num(0), input.windKtSigned)) =>
    /\ locals.factor =
         RMax(RSub(Num(1), RMul(RDiv(input.windKtSigned, Num(9)), Rat(1, 10))), Half)
    /\ RLe(Half, locals.factor)
    /\ RLe(FloorWind, input.windKtSigned) =>
         /\ out = WithWind(FloorWind)
         /\ locals.factor = Half
         /\ locals.rollWind = RMul(locals.roll, Half)
         /\ locals.over50Wind = RMul(locals.over50, Half)

C11_Witness ==
  /\ status = "returned"
  /\ ~NoDistances(out)
  /\ RLt(FloorWind, input.windKtSigned)
  /\ locals.rollWind = RMul(locals.roll, Half)
  /\ input.dryGrass

CapWind == Num(-10)

\* C12: for a tailwind both interpolated distances are multiplied by
\* 1 + (min(|wind|, 10) / 10) * 0.10, a factor above 1 and at most 1.10; a
\* tailwind of 10 kt or more gives the result of exactly -10 kt, and still
\* air leaves both distances unchanged.
C12_TailwindCap ==
  (status = "returned" /\ ~NoDistances(out)) =>
    /\ RLt(input.windKtSigned, Num(0)) =>
         /\ locals.factor =
              RAdd(Num(1), RMul(RDiv(RMin(RAbs(input.windKtSigned), Num(10)), Num(10)),
                                Rat(1, 10)))
         /\ RLt(Num(1), locals.factor) /\ RLe(locals.factor, Rat(11, 10))
         /\ locals.rollWind = RMul(locals.roll, locals.factor)
         /\ locals.over50Wind = RMul(locals.over50, locals.factor)
         /\ RLe(input.windKtSigned, CapWind) => out = WithWind(CapWind)
    /\ input.windKtSigned = Num(0) =>
         /\ locals.rollWind = locals.roll
         /\ locals.over50Wind = locals.over50

\* A tailwind above the cap, whose ground roll exceeds that of a lighter
\* tailwind by the capped factor only.
C12_Witness ==
  /\ status = "returned"
  /\ ~NoDistances(out)
  /\ RLt(input.windKtSigned, CapWind)
  /\ locals.factor = Rat(11, 10)
  /\ RLt(WithWind(Num(-5)).groundRollFt, out.groundRollFt)

\* The result for the same request on a paved runway.
Paved == calculate(data, [input EXCEPT !.dryGrass = FALSE], <<>>).value

GrassCase == status = "returned" /\ ~NoDistances(out) /\ input.dryGrass

\* The returned grass ground roll is 1.15 times the returned paved one up to
\* the two roundings (half a foot each, the paved one scaled by 1.15).
GrassRollLaw ==
  RLe(RAbs(RSub(out.groundRollFt, RMul(Paved.groundRollFt, Rat(115, 100)))),
      Rat(1075, 1000))

GrassRollGain == RSub(out.groundRollFt, Paved.groundRollFt)

GrassOver50Gain == RSub(out.toClear50Ft, Paved.toClear50Ft)

\* C13 as stated: the returned grass ground roll is the paved one times 1.15
\* within rounding, and the returned distance over the obstacle grows by
\* exactly the growth of the returned ground roll.
C13_SurfaceLawExact ==
  GrassCase => (GrassRollLaw /\ GrassOver50Gain = GrassRollGain)

\* C13 amended: the two returned gains differ by at most one foot, and both
\* are the shared increment (15% of the ground roll after wind) rounded down
\* or up.
C13_SurfaceLaw ==
  GrassCase =>
    LET inc == RMul(locals.rollWind, Rat(15, 100))
        near(gain) == RLt(RSub(inc, Num(1)), gain) /\ RLt(gain, RAdd(inc, Num(1)))
    IN  /\ GrassRollLaw
        /\ RLe(RAbs(RSub(GrassOver50Gain, GrassRollGain)), Num(1))
        /\ near(GrassRollGain) /\ near(GrassOver50Gain)

\* The two returned gains differ by one foot.
C13_Witness ==
  /\ GrassCase
  /\ GrassOver50Gain # GrassRollGain

\* C14: on the toy table (weights 900 and 1000 lb, altitudes 0 and 2000 ft,
\* temperatures 0 and 20 C, ground roll 500/600 and 550/660) the request
\* weight 950, altitude 0, OAT 0, wind 0, paved returns a ground roll of 525
\* and no notes.
C14_Scenario ==
  (Called /\ data = ScenarioTable /\ input = ScenarioRequest) =>
    /\ status = "returned"
    /\ out.groundRollFt = Num(525)
    /\ out.notes = <<>>

C14_Witness ==
  /\ data = ScenarioTable
  /\ input = ScenarioRequest
  /\ status = "returned"
  /\ locals.tw = Half
  /\ locals.roll = Num(525)
  /\ out.toClear50Ft = Num(945)

ResultFields(o) == {o.groundRollFt, o.toClear50Ft, o.liftoffKIAS, o.at50ftKIAS}

\* A returned distance is absent only when its lookup was absent, and is
\* the number 0 when the corrected distance is 0; the UI shows the
\* placeholder for absent and only for absent.
ZeroKept(lookedUp, computed, returned) ==
  /\ IsNumber(lookedUp) /\ IsNumber(computed) => IsNumber(returned)
  /\ computed = Num(0) => returned = Num(0)
  /\ (renderDistance(returned) = Placeholder) = (returned = Null)
  /\ returned = Num(0) => renderDistance(returned) = <<Num(0), "m">>

\* C15: whenever one of the four numeric fields is absent the notes are not
\* empty; a distance computed as 0 is returned as the number 0, not absent;
\* the UI renders an absent distance as the placeholder and 0 as 0 m.
C15_AbsentNotZero ==
  status = "returned" =>
    /\ Null \in ResultFields(out) => Len(out.notes) > 0
    /\ ZeroKept(locals.roll, locals.rollWind, out.groundRollFt)
    /\ ZeroKept(locals.over50, locals.over50Wind, out.toClear50Ft)

\* A ground roll of 0 ft under a headwind, returned and shown as 0.
C15_Witness ==
  /\ status = "returned"
  /\ locals.roll = Num(0)
  /\ RLt(Num(0), locals.over50)
  /\ RLt(Num(0), input.windKtSigned)
  /\ out.groundRollFt = Num(0)
  /\ out.notes = <<>>
  /\ renderDistance(out.groundRollFt) = <<Num(0), "m">>

\* The wind factor f of step 5: the floored headwind factor, the capped
\* tailwind factor, or 1 in still air.
WindFactorOf(wind) ==
  IF RLt(Num(0), wind)
  THEN RMax(RSub(Num(1), RMul(RDiv(wind, Num(9)), Rat(1, 10))), Half)
  ELSE IF RLt(wind, Num(0))
  THEN RAdd(Num(1), RMul(RDiv(RMin(RAbs(wind), Num(10)), Num(10)), Rat(1, 10)))
  ELSE Num(1)

\* C16: with both interpolated distances B_roll and B_50 present and f the
\* wind factor, groundRollFt = round(B_roll * f * (1.15 if dryGrass else 1))
\* and toClear50Ft = round(B_50 * f + (0.15 * B_roll * f if dryGrass else 0)):
\* wind first, then 15% of the wind-corrected ground roll, one rounding last.
C16_Composition ==
  (status = "returned" /\ IsNumber(locals.roll) /\ IsNumber(locals.over50)) =>
    LET f == WindFactorOf(input.windKtSigned)
        surface == IF input.dryGrass THEN Rat(115, 100) ELSE Num(1)
        share == IF input.dryGrass THEN Rat(15, 100) ELSE Num(0)
    IN  /\ out.groundRollFt = MathRound(RMul(RMul(locals.roll, f), surface))
        /\ out.toClear50Ft =
             MathRound(RAdd(RMul(locals.over50, f),
                            RMul(RMul(locals.roll, f), share)))

\* Wind and grass together, with an increment that is not a whole number.
C16_Witness ==
  /\ status = "returned"
  /\ ~NoDistances(out)
  /\ input.dryGrass
  /\ input.windKtSigned # Num(0)
  /\ RMul(locals.rollWind, Rat(15, 100))[2] # 1
  /\ out.groundRollFt # MathRound(RMul(locals.roll, Rat(115, 100)))

\* The blended grid g has the table's dimensions and every cell is absent
\* exactly when the lower or the upper source cell is, and their linear
\* blend by t otherwise.
BlendOf(g, lo, hi, t, na, nt) ==
  /\ Len(g) = na
  /\ \A i \in 1..na :
       /\ Len(g[i]) = nt
       /\ \A j \in 1..nt :
            IF lo[i][j] = Null \/ hi[i][j] = Null
            THEN g[i][j] = Null
            ELSE g[i][j] = RAdd(lo[i][j], RMul(RSub(hi[i][j], lo[i][j]), t))

\* C17: for a weight in range, each cell of a blended grid is absent if and
\* only if the lower or the upper row's cell is absent, also for t_w = 0 or
\* 1, and lower + (upper - lower) * t_w otherwise; the blended grids have the
\* table's axis dimensions.
C17_GridBlend ==
  (Called /\ InWeightRange(data, input.weightLb)) =>
    LET w == input.weightLb
        lo == RowOf(data, LowerWeight(data, w))
        hi == RowOf(data, UpperWeight(data, w))
        na == Len(data.grid.pressure_altitudes_ft)
        nt == Len(data.grid.temperatures_c)
    IN  /\ locals.reached
        /\ BlendOf(locals.rollGrid, lo.ground_roll_ft, hi.ground_roll_ft,
                   Fraction(data, w), na, nt)
        /\ BlendOf(locals.over50Grid, lo.to_clear_50ft_ft, hi.to_clear_50ft_ft,
                   Fraction(data, w), na, nt)

\* A request at a table weight: the row carrying no weight in the blend
\* lacks a cell that the other row has, and the blended cell is absent.
C17_Witness ==
  LET w == input.weightLb
      lo == RowOf(data, LowerWeight(data, w))
      hi == RowOf(data, UpperWeight(data, w))
  IN  /\ locals.reached
      /\ InWeightRange(data, w)
      /\ locals.tw = Num(0)
      /\ \E i \in 1..Len(locals.over50Grid) : \E j \in 1..Len(locals.over50Grid[i]) :
           /\ hi.to_clear_50ft_ft[i][j] = Null
           /\ lo.to_clear_50ft_ft[i][j] # Null
           /\ locals.over50Grid[i][j] = Null

InteriorWeight(d, w) ==
  w \in TableWeights(d) /\ w # MinWeight(d) /\ w # MaxWeight(d)

\* C18: for wMin <= w <= wMax, both bounds included, and distinct weights
\* stored in any order, the selected rows satisfy lower <= w <= upper and are
\* adjacent in sorted order; at an interior table weight the first such pair
\* is chosen: that weight is the upper row and t_w = 1.
C18_WeightBracket ==
  (Called /\ InWeightRange(data, input.weightLb)) =>
    LET w == input.weightLb
    IN  /\ locals.reached
        /\ locals.lower \in TableWeights(data)
        /\ locals.upper \in TableWeights(data)
        /\ RLe(locals.lower, w) /\ RLe(w, locals.upper)
        /\ RLt(locals.lower, locals.upper)
        /\ \A v \in TableWeights(data) : ~(RLt(locals.lower, v) /\ RLt(v, locals.upper))
        /\ InteriorWeight(data, w) => (locals.upper = w /\ locals.tw = Num(1))

\* An interior table weight in a table whose rows are stored out of order.
C18_Witness ==
  /\ locals.reached
  /\ InteriorWeight(data, input.weightLb)
  /\ RLt(data.grid.weights[Len(data.grid.weights)].weight_lb,
         data.grid.weights[1].weight_lb)
  /\ locals.upper = input.weightLb
  /\ RLt(locals.lower, input.weightLb)

\* The interval [axis[i], axis[i + 1]] (0-based i) holds x.
Holds(axis, i, x) == RLe(axis[i + 1], x) /\ RLe(x, axis[i + 2])

\* clampIndex(x, axis) is absent exactly outside the axis, and otherwise the
\* smallest index of an interval holding x, at most length - 2.
AxisLaw(x, axis) ==
  LET i == clampIndex(x, axis)
      last == Len(axis)
  IN  /\ (i = NoIndex) = (RLt(x, axis[1]) \/ RLt(axis[last], x))
      /\ i # NoIndex =>
           /\ 0 <= i /\ i <= last - 2
           /\ Holds(axis, i, x)
           /\ \A k \in 0..(i - 1) : ~Holds(axis, k, x)
      /\ x = axis[last] => i = last - 2

\* C19: for a strictly increasing axis of length at least 2, clampIndex
\* returns absent exactly when x is below the first or above the last value,
\* and otherwise the smallest i with axis[i] <= x <= axis[i + 1], with
\* 0 <= i <= length - 2 (the last value yields length - 2).  Checked for the
\* two lookups of every call: the working altitude and the OAT.
C19_AxisBracket ==
  locals.reached =>
    /\ Len(AltitudeValues(data)) >= 2 =>
         \A x \in {locals.pa, input.pressureAltitudeFt} : AxisLaw(x, AltitudeValues(data))
    /\ Len(data.grid.temperatures_c) >= 2 => AxisLaw(input.oatC, data.grid.temperatures_c)

\* A lookup at the last value of an axis of three values.
C19_Witness ==
  /\ status = "returned"
  /\ locals.reached
  /\ Len(data.grid.temperatures_c) = 3
  /\ input.oatC = TMax(data)
  /\ clampIndex(input.oatC, data.grid.temperatures_c) = 1
  /\ IsNumber(locals.roll)

\* The first stored row of weight w: the lower row of a pair of equal weights.
FirstRowOf(d, w) ==
  LET c == {p \in 1..Len(d.grid.weights) : d.grid.weights[p].weight_lb = w}
  IN  d.grid.weights[CHOOSE p \in c : \A q \in c : p <= q]

\* The last stored row of weight w: the upper row of a pair of equal weights.
LastRowOf(d, w) ==
  LET c == {p \in 1..Len(d.grid.weights) : d.grid.weights[p].weight_lb = w}
  IN  d.grid.weights[CHOOSE p \in c : \A q \in c : q <= p]

EqualWeights == status = "returned" /\ locals.reached /\ locals.lower = locals.upper

\* The fraction is the number 0 and the speeds are the lower row's own.
GuardedFraction ==
  /\ locals.tw = Num(0)
  /\ out.liftoffKIAS = FirstRowOf(data, locals.lower).speeds_kias.liftoff
  /\ out.at50ftKIAS = FirstRowOf(data, locals.lower).speeds_kias.at_50ft

LowerWhereBoth(g, lo, hi) ==
  /\ Len(g) = Len(lo)
  /\ \A i \in 1..Len(lo) :
       /\ Len(g[i]) = Len(lo[i])
       /\ \A j \in 1..Len(lo[i]) :
            g[i][j] = IF hi[i][j] = Null THEN Null ELSE lo[i][j]

Present(v) == v # Null

\* The set of notes of a result.
NoteSet(notes) == {notes[k] : k \in 1..Len(notes)}

\* C21: in every result the two distances are present together or absent
\* together, and so are the two speeds; present distances imply present
\* speeds; there are at most 2 notes; for a weight in range the notes are the
\* clamp note exactly when the request altitude is below paMin, the
\* extrapolation note exactly when the distances are absent, and no other.
C21_ResultShape ==
  status = "returned" =>
    /\ Present(out.groundRollFt) = Present(out.toClear50Ft)
    /\ Present(out.liftoffKIAS) = Present(out.at50ftKIAS)
    /\ Present(out.groundRollFt) => Present(out.liftoffKIAS)
    /\ Len(out.notes) <= 2
    /\ InWeightRange(data, input.weightLb) =>
         /\ Cardinality(NoteSet(out.notes)) = Len(out.notes)
         /\ NoteSet(out.notes) =
              (IF RLt(input.pressureAltitudeFt, PaMin(data))
               THEN {ClampNote(input.pressureAltitudeFt)} ELSE {})
              \cup (IF NoDistances(out) THEN {ExtrapolationNote} ELSE {})

\* A clamped request whose lookup fails: both notes, speeds without distances.
C21_Witness ==
  /\ status = "returned"
  /\ InWeightRange(data, input.weightLb)
  /\ RLt(input.pressureAltitudeFt, PaMin(data))
  /\ NoDistances(out)
  /\ Present(out.liftoffKIAS)
  /\ Len(out.notes) = 2

\* The 1-based position of x on the axis, or 0 when x is not an axis value.
NodeOf(x, axis) ==
  LET c == {k \in 1..Len(axis) : axis[k] = x}
  IN  IF c = {} THEN 0 ELSE CHOOSE k \in c : TRUE

\* A still-air, paved request at a node of the table: a table weight, an
\* altitude-axis value and a temperature-axis value, with the four corner
\* cells of the bracketing intervals present in both bracketing rows.
AtNode ==
  /\ Called
  /\ input.weightLb \in TableWeights(data)
  /\ input.windKtSigned = Num(0) /\ ~input.dryGrass
  /\ NodeOf(input.pressureAltitudeFt, AltitudeValues(data)) # 0
  /\ NodeOf(input.oatC, data.grid.temperatures_c) # 0
  /\ BracketOf(input.pressureAltitudeFt, AltitudeValues(data)) # NoIndex
  /\ BracketOf(input.oatC, data.grid.temperatures_c) # NoIndex
  /\ ~CornerAbsent(data, input.weightLb, input.pressureAltitudeFt, input.oatC)

\* C22: at a node of the table, in still air on a paved runway and with the
\* four bracketing corners present in both bracketing rows, the returned
\* distances are the rounded cells of the requested weight's row at that
\* node, whatever the other corners and the other row hold.
C22_NodeReproduction ==
  AtNode =>
    LET row == RowOf(data, input.weightLb)
        i == NodeOf(input.pressureAltitudeFt, AltitudeValues(data))
        j == NodeOf(input.oatC, data.grid.temperatures_c)
    IN  /\ status = "returned"
        /\ out.groundRollFt = MathRound(row.ground_roll_ft[i][j])
        /\ out.toClear50Ft = MathRound(row.to_clear_50ft_ft[i][j])

\* An interior table weight (t_w = 1) at the first altitude and the last
\* temperature of the axes: the node is a different corner on each axis.
C22_Witness ==
  /\ AtNode
  /\ status = "returned"
  /\ locals.tw = Num(1)
  /\ input.pressureAltitudeFt = PaMin(data)
  /\ input.oatC = TMax(data)
  /\ out.groundRollFt =
       RowOf(data, input.weightLb).ground_roll_ft[1][Len(data.grid.temperatures_c)]

\* The number of characters of the parameter, and of its upper case.
ParamLen(param) == IF param = Missing THEN 0 ELSE Len(param)

UpperLen(param) ==
  IF param = Missing THEN 0
  ELSE Len(param) + Cardinality({k \in 1..Len(param) : param[k] = "sz"})

\* The fallback protocol of a request that is rejected or accepted: at most
\* one response, and one when the handler is done; a rejected request gets
\* 400 and no upstream is contacted; for an accepted one AWC is contacted
\* first, NOAA only after AWC failed, the response is 200 with the first
\* source that succeeded and 502 only when both failed.
Protocol(rejected) ==
  LET r == proxy.responses
      done == proxy.pc = "done"
  IN  proxy.pc # "idle" =>
        /\ Len(r) <= 1
        /\ done = (Len(r) = 1)
        /\ rejected =>
             /\ proxy.contacted = <<>>
             /\ proxy.pc # "received" => (done /\ r[1].status = 400)
        /\ ~rejected =>
             /\ proxy.contacted \in {<<>>, <<"AWC">>, <<"AWC", "NOAA">>}
             /\ proxy.pc # "received" => proxy.contacted # <<>>
             /\ (proxy.contacted = <<"AWC", "NOAA">>) = ("AWC" \in proxy.failed)
             /\ done =>
                  r[1] = IF "AWC" \notin proxy.failed THEN Response(200, "awc-json")
                         ELSE IF "NOAA" \notin proxy.failed THEN Response(200, "noaa-txt")
                         ELSE Response(502, "none")

Answered == (proxy.pc = "received") ~> (proxy.pc = "done")

Numeric(values) == \E v \in values : Len(v) = 2

SpeedKnown(item) == Numeric({item.wind_speed_kt, item.wind_speed_kts, item.wind_speed})

DirectionKnown(item) == Numeric({item.wind_dir_degrees, item.wind_dir, item.wind_degrees})

\* The fetch that is awaited was started with a runway of the airport
\* selected.
RunwaySelected ==
  /\ ui.pending[1].selectedRunway # ""
  /\ \E k \in 1..Len(ui.pending[1].runways) :
       ui.pending[1].runways[k].ident = ui.pending[1].selectedRunway

\* The steps at issue: fetchMETAR resumes after its awaits, with a record
\* or without one; onCalculate runs.
MetarStep == ui.pending # <<>> /\ ui'.pending = <<>>

RecordStep == MetarStep /\ ui'.metar # <<>>

CalculateStep == ui' = ui /\ status' # "idle"

WindInputs(u) == <<u.windType, u.windMagKt>>

\* A record with a wind speed and no wind direction, fetched with a runway
\* selected, sets a headwind of zero.
DefaultsToZero ==
  (RecordStep /\ RunwaySelected /\ SpeedKnown(ui'.metar[1]) /\ ~DirectionKnown(ui'.metar[1]))
    => WindInputs(ui') = <<"head", Num(0)>>

\* calculate is called with the signed wind of the inputs: zero for a
\* headwind of zero.
ReceivesInputs ==
  CalculateStep =>
    /\ input'.windKtSigned \in {ui.windMagKt, RNeg(ui.windMagKt)}
    /\ WindInputs(ui) = <<"head", Num(0)>> => input'.windKtSigned = Num(0)

\* Without a wind speed (no record among the cases), or without a runway
\* selected, the wind inputs stay as they were.
LeftUnchanged ==
  (MetarStep /\ (~RunwaySelected \/ ui'.metar = <<>> \/ ~SpeedKnown(ui'.metar[1])))
    => WindInputs(ui') = WindInputs(ui)

\* C24: a fetched METAR record with a numeric wind speed and no numeric wind
\* direction, with a runway of known heading selected, sets wind type
\* 'head' and magnitude 0, and the calculate call that follows receives
\* windKtSigned = 0; with no wind speed available or no runway selected the
\* wind inputs are left unchanged.
C24_WindPrefill == [][DefaultsToZero /\ ReceivesInputs /\ LeftUnchanged]_vars

\* A calm record that came with a runway selected has set the temperature,
\* the pressure altitude and a headwind of zero, and calculate has
\* received them.
C24_Witness ==
  /\ status = "returned"
  /\ ui.pending = <<>>
  /\ ui.metar # <<>>
  /\ SpeedKnown(ui.metar[1])
  /\ ~DirectionKnown(ui.metar[1])
  /\ ui.selectedRunway = "27"
  /\ WindInputs(ui) = <<"head", Num(0)>>
  /\ input = requestOf(ui)
  /\ input.windKtSigned = Num(0)
  /\ input.pressureAltitudeFt = Num(1000)
  /\ input.oatC = Num(20)
  /\ out.groundRollFt # Null

====
